---- MODULE Spec2Model ----
(***************************************************************************)
(* Attendance-System: the attendance ledger (PooledDatabaseService.        *)
(* log_attendance_update_only), the camera workers (CameraService.         *)
(* process_camera) and the realtime hub (WebSocketManager and the /ws      *)
(* handler of api.py).                                                     *)
(*                                                                         *)
(* Everything runs on one asyncio event loop (uvicorn.run, one process).   *)
(* A coroutine runs without interruption until its next await that really  *)
(* suspends, so one action is the code between two suspension points.      *)
(* The variable `loop` names the camera task that is in the middle of such *)
(* a run: while it is set, no other task takes a step.  The ledger call    *)
(* is a plain synchronous call, so it never yields the loop.               *)
(***************************************************************************)
EXTENDS Integers, Sequences, FiniteSets, TLC

\* ---------------------------------------------------------------- bounds
MaxClock    == 2   \* last instant of the modelled wall clock
DayLen      == 2   \* instants per reporting-zone calendar day
MaxFaces    == 2   \* matched faces per processed frame
MaxSessions == 2   \* off-to-on transitions of the monitoring flag
MaxFrames   == 2   \* frames read and stamped by all workers together
MaxPoses    == 2   \* enrolled embeddings per employee

\* ------------------------------------------------------ program constants
FRAME_SKIP    == 3
max_reconnect == 5
TOP_K                 == 20    \* neighbours asked of the index
GAP                   == 80    \* 0.08, in thousandths
PENALTY_TENTHS        == 6     \* the factor 0.6
recognition_threshold == 400   \* 0.40, in thousandths

NULL   == -1          \* SQL NULL in a TIME / FLOAT column, Python None
NoCam  == "NULL"      \* SQL NULL in a camera-id column
None   == "None"      \* Python None where a name or a viewer is expected
NoTask == <<0, "-">>   \* no camera task is in the middle of a run

Employees == {"E001", "E002"}
Cams      == {"entry", "exit"}
Viewers   == {"v1", "v2", "v3"}

\* get_camera_config
CAMERA_CONFIG ==
  [entry |-> [id |-> "entry_camera", purpose |-> "IN"],
   exit  |-> [id |-> "exit_camera",  purpose |-> "OUT"]]

\* The identity the /ws handler derives from the session cookie: v1 and v2
\* carry no valid session, v3 is a logged-in administrator.
user_name(v) == IF v = "v3" THEN "root" ELSE "Unknown"
user_role(v) == IF v = "v3" THEN "admin" ELSE "user"

VARIABLES
  clock,               \* wall clock of the reporting zone (datetime.now(IST))
  table,               \* attendance_logs: a set of rows
  workers,             \* the process_camera tasks, by <<session, camera>>
  loop,                \* the camera task that holds the event loop, or NoTask
  frames_read,         \* number of frames read and stamped so far
  is_monitoring,       \* WebSocketManager.is_monitoring
  started_by,          \* WebSocketManager.started_by (a display name)
  starter,             \* the viewer whose start made the last transition
  stopper,             \* the viewer whose stop was accepted last in this session
  sessions,            \* number of off-to-on transitions so far
  active_connections,  \* WebSocketManager.active_connections
  broken,              \* registered viewers whose socket no longer takes a send
  start_lock,          \* holder of WebSocketManager.start_lock, or None
  vpc,                 \* position of each viewer's /ws handler
  sent,                \* what the latest step sent: the receivers and the messages
  last_frame,          \* WebSocketManager.last_frame
  enrolled,            \* the embeddings of the active rows of `employees`
  face_map,            \* FaceRecognitionServiceFAISS.face_map
  embeddings_cache,    \* FaceRecognitionServiceFAISS.embeddings_cache
  emp_id_map,          \* FaceRecognitionServiceFAISS.emp_id_map
  faiss_index,         \* FaceRecognitionServiceFAISS.faiss_index
  answer,              \* what the latest recognize_face returned
  stale,               \* time.time() - last_reload exceeds the reload age
  store_ok,            \* the enrollment store answers its queries
  stats                \* CameraService.stats

session == <<clock, table, workers, loop, frames_read, is_monitoring, started_by,
             starter, stopper,
             sessions, active_connections, broken, start_lock, vpc, sent,
             last_frame, stats>>
matcher == <<enrolled, face_map, embeddings_cache, emp_id_map, faiss_index,
             answer, stale, store_ok>>
vars    == <<session, matcher>>

\* ------------------------------------------------------------ the ledger
\* timestamp_ist.date() and timestamp_ist.strftime('%H:%M:%S')
DateOf(timestamp)   == timestamp \div DayLen
TimeOnly(timestamp) == timestamp % DayLen

\* BIGSERIAL primary key
NextId(tbl) == Cardinality(tbl) + 1

\* the SELECT with the day taken one off (the server's date, not the
\* reporting zone's)
SelectExisting_OtherDay(tbl, emp_id, today) ==
  {r \in tbl : r.emp_id = emp_id /\ r.date = today + 1}

\* the SELECT without its test of the date
SelectExisting_AnyDay(tbl, emp_id, today) ==
  {r \in tbl : r.emp_id = emp_id}

\* SELECT ... FROM attendance_logs WHERE emp_id = %s AND date = %s
SelectExisting(tbl, emp_id, today) ==
  {r \in tbl : r.emp_id = emp_id /\ r.date = today}

\* the INSERT of a record with no time in it, left to a later UPDATE
NewRow_Blank(tbl, emp_id, today, time_only, camera_id, confidence) ==
  [id |-> NextId(tbl), emp_id |-> emp_id, date |-> today,
   first_in |-> NULL, last_out |-> NULL,
   in_camera_id |-> NoCam, out_camera_id |-> NoCam,
   in_confidence |-> NULL, out_confidence |-> NULL]

\* the INSERT with the event written to the OUT columns
NewRow_OutColumns(tbl, emp_id, today, time_only, camera_id, confidence) ==
  [id |-> NextId(tbl), emp_id |-> emp_id, date |-> today,
   first_in |-> NULL, last_out |-> time_only,
   in_camera_id |-> NoCam, out_camera_id |-> camera_id,
   in_confidence |-> NULL, out_confidence |-> confidence]

\* INSERT INTO attendance_logs (emp_id, date, first_in, in_camera_id,
\* in_confidence); UNIQUE (emp_id, date) makes it raise on a second row.
NewRow(tbl, emp_id, today, time_only, camera_id, confidence) ==
  [id |-> NextId(tbl), emp_id |-> emp_id, date |-> today,
   first_in |-> time_only, last_out |-> NULL,
   in_camera_id |-> camera_id, out_camera_id |-> NoCam,
   in_confidence |-> confidence, out_confidence |-> NULL]

UniqueViolation(tbl, row) ==
  \E r \in tbl : r.emp_id = row.emp_id /\ r.date = row.date

Result(success, action) == [success |-> success, action |-> action]
NoResult == Result(FALSE, "none")
Outcome(tbl, result) == [table |-> tbl, result |-> result]

\* cursor.execute(INSERT ...); conn.commit(): a PostgresError leaves the
\* table as it was and becomes {"success": False, "message": str(e)}
Insert(tbl, row) ==
  IF UniqueViolation(tbl, row)
    THEN Outcome(tbl, Result(FALSE, "error"))
    ELSE Outcome(tbl \cup {row}, Result(TRUE, "inserted"))

\* UPDATE attendance_logs SET last_out, out_camera_id, out_confidence
\* WHERE id = record_id
UpdateOut(tbl, record_id, time_only, camera_id, confidence) ==
  {IF r.id = record_id
     THEN [r EXCEPT !.last_out = time_only, !.out_camera_id = camera_id,
                    !.out_confidence = confidence]
     ELSE r : r \in tbl}

\* UPDATE attendance_logs SET first_in, in_camera_id, in_confidence
\* WHERE id = record_id
UpdateIn(tbl, record_id, time_only, camera_id, confidence) ==
  {IF r.id = record_id
     THEN [r EXCEPT !.first_in = time_only, !.in_camera_id = camera_id,
                    !.in_confidence = confidence]
     ELSE r : r \in tbl}

\* the IN branch overwriting the IN columns of the record it found
LogInExisting_Overwrite(tbl, existing, time_only, camera_id, confidence) ==
  Outcome(UpdateIn(tbl, existing.id, time_only, camera_id, confidence),
          Result(TRUE, "updated"))

\* the IN branch adding a row per event, around the unique key
LogInExisting_RowPerEvent(tbl, existing, time_only, camera_id, confidence) ==
  Outcome(tbl \cup {[id |-> NextId(tbl), emp_id |-> existing.emp_id,
                     date |-> existing.date, first_in |-> time_only,
                     last_out |-> NULL, in_camera_id |-> camera_id,
                     out_camera_id |-> NoCam, in_confidence |-> confidence,
                     out_confidence |-> NULL]},
          Result(TRUE, "inserted"))

\* event_type == 'IN', a record exists: "IN already logged"
LogInExisting(tbl, existing, time_only, camera_id, confidence) ==
  Outcome(tbl, Result(TRUE, "skipped"))

\* the OUT branch with the test of first_in inverted
LogOutExisting_Inverted(tbl, existing, time_only, camera_id, confidence) ==
  IF existing.first_in = NULL
    THEN Outcome(UpdateOut(tbl, existing.id, time_only, camera_id, confidence),
                 Result(TRUE, "updated"))
    ELSE Outcome(UpdateIn(tbl, existing.id, time_only, camera_id, confidence),
                 Result(TRUE, "updated"))

\* event_type == 'OUT', a record exists
LogOutExisting(tbl, existing, time_only, camera_id, confidence) ==
  IF existing.first_in # NULL
    THEN Outcome(UpdateOut(tbl, existing.id, time_only, camera_id, confidence),
                 Result(TRUE, "updated"))
    ELSE Outcome(UpdateIn(tbl, existing.id, time_only, camera_id, confidence),
                 Result(TRUE, "updated"))

\* a fault reported after the write was kept
StoreFault_Written(tbl, done) == Outcome(done.table, Result(FALSE, "error"))

\* A PostgresError anywhere in the call (the pool, a SELECT, the write, the
\* commit) where it would otherwise have come to `done`: get_connection
\* rolls the transaction back and raises again, log_attendance_update_only
\* catches it and returns {"success": False, "message": str(e)}.
StoreFault(tbl, done) == Outcome(tbl, Result(FALSE, "error"))

\* no record exists, either event type: a new record with the IN columns
LogNoRecord(tbl, emp_id, today, time_only, camera_id, confidence) ==
  Insert(tbl, NewRow(tbl, emp_id, today, time_only, camera_id, confidence))

\* PooledDatabaseService.log_attendance_update_only: the table after the
\* call and the dict it returns.
log_attendance_update_only(tbl, emp_id, event_type, camera_id, confidence, timestamp) ==
  LET today     == DateOf(timestamp)
      time_only == TimeOnly(timestamp)
      found     == SelectExisting(tbl, emp_id, today)
      existing  == CHOOSE r \in found : TRUE
  IN  IF event_type = "IN"
        THEN IF found # {}
               THEN LogInExisting(tbl, existing, time_only, camera_id, confidence)
               ELSE LogNoRecord(tbl, emp_id, today, time_only, camera_id, confidence)
      ELSE IF event_type = "OUT"
        THEN IF found # {}
               THEN LogOutExisting(tbl, existing, time_only, camera_id, confidence)
               ELSE LogNoRecord(tbl, emp_id, today, time_only, camera_id, confidence)
      ELSE Outcome(tbl, Result(FALSE, "invalid"))

\* --------------------------------------------------------------- the hub
\* Outbound messages {type, ...payload}
StatusMsg(camera_status, who) ==
  [type |-> "status", info |-> camera_status, by |-> who]
FrameMsg(camera) == [type |-> "frame", info |-> camera, by |-> "-"]
ErrorMsg(who) == [type |-> "error", info |-> "-", by |-> who]
AttendanceMsg(emp_id, action) ==
  [type |-> "attendance", info |-> action, by |-> emp_id]
ConnectionStatus(cameras_running, can_stop) ==
  [type |-> "connection_status",
   info |-> IF cameras_running THEN "running" ELSE "idle",
   by   |-> IF can_stop THEN "can_stop" ELSE "cannot_stop"]

\* What a step puts on the sockets: `to` are the registered viewers whose
\* send_json is called, `via` tells a fan-out from a send to one socket.
NoSend == [to |-> {}, msgs |-> <<>>, via |-> "none"]
SendTo(v, msgs) ==
  IF msgs = <<>> THEN NoSend ELSE [to |-> {v}, msgs |-> msgs, via |-> "direct"]

\* WebSocketManager.cache_frame
cache_frame(cache, message) ==
  IF message.info \in Cams THEN [cache EXCEPT ![message.info] = "img"] ELSE cache

\* WebSocketManager.broadcast: the last-frame cache after the call
BroadcastCache(cache, conns, message) ==
  IF conns = {} THEN cache
  ELSE IF message.type = "frame" THEN cache_frame(cache, message) ELSE cache

\* WebSocketManager.broadcast: the fan-out
Broadcast(conns, message) ==
  IF conns = {} THEN NoSend
  ELSE [to |-> conns, msgs |-> <<message>>, via |-> "broadcast"]

\* a replay that stops after the entry camera
send_cached_frames_EntryOnly(cache) ==
  IF cache["entry"] # None THEN <<FrameMsg("entry")>> ELSE <<>>

\* WebSocketManager.send_cached_frames: entry first, then exit
send_cached_frames(cache) ==
  (IF cache["entry"] # None THEN <<FrameMsg("entry")>> ELSE <<>>)
    \o (IF cache["exit"] # None THEN <<FrameMsg("exit")>> ELSE <<>>)

\* ------------------------------------------------------------ the matcher
\* FaceRecognitionServiceFAISS.  An enrolled embedding is identified with its
\* cosine similarity to the probe face, in thousandths: the inner product
\* the index computes for it.  Sims holds the values of the documented
\* examples, both sides of the gap and of the threshold, and a negative one.
Sims       == {0 - 100, 300, 420, 500, 770, 820}
RowOrder   == <<"E001", "E002">>   \* the order of the rows of `employees`
\* The poses of one employee, best first: the index hands the neighbours
\* over best first whatever the order of the columns they were stored in.
PoseLists  == {p \in UNION {[1..n -> Sims] : n \in 0..MaxPoses} :
                 \A i \in 1..(Len(p) - 1) : p[i] >= p[i + 1]}
\* db_service.load_all_embeddings(): the embeddings of each active employee;
\* an employee without embeddings is left out (here: the empty list)
Enrollments  == [Employees -> PoseLists]
NoEnrollment == [e \in Employees |-> <<>>]

NoIndex        == [built |-> FALSE, vecs |-> <<>>]   \* faiss_index is None
IndexFlatIP(v) == [built |-> TRUE, vecs |-> v]
NoMatch(confidence) == [emp_id |-> None, confidence |-> confidence]
Match(emp_id, confidence) == [emp_id |-> emp_id, confidence |-> confidence]
NoAnswer == [emp_id |-> "-", confidence |-> 0]        \* no query has returned

\* the two loops of load_face_map over face_map.items() and the embeddings
RECURSIVE FlattenEmbeddings(_, _)
FlattenEmbeddings(fm, order) ==
  IF order = <<>> THEN <<>>
  ELSE fm[Head(order)] \o FlattenEmbeddings(fm, Tail(order))

\* a position-to-identity list with one entry per employee
RECURSIVE FlattenIds_OnePerIdentity(_, _)
FlattenIds_OnePerIdentity(fm, order) ==
  IF order = <<>> THEN <<>>
  ELSE (IF fm[Head(order)] = <<>> THEN <<>> ELSE <<Head(order)>>)
         \o FlattenIds_OnePerIdentity(fm, Tail(order))

RECURSIVE FlattenIds(_, _)
FlattenIds(fm, order) ==
  IF order = <<>> THEN <<>>
  ELSE [i \in 1..Len(fm[Head(order)]) |-> Head(order)]
         \o FlattenIds(fm, Tail(order))

Min(a, b) == IF a <= b THEN a ELSE b

\* faiss_index.search(query, k): the k positions of highest inner product,
\* best first (equal ones by position)
RECURSIVE Nearest(_, _, _)
Nearest(vecs, among, k) ==
  IF k = 0 \/ among = {} THEN <<>>
  ELSE LET best == CHOOSE i \in among : \A j \in among :
                     vecs[i] > vecs[j] \/ (vecs[i] = vecs[j] /\ i <= j)
       IN  <<best>> \o Nearest(vecs, among \ {best}, k - 1)

search(index, k) == Nearest(index.vecs, 1..Len(index.vecs), k)

\* sorted(sims, reverse=True)
RECURSIVE SortedReverse(_)
SortedReverse(sims) ==
  IF sims = <<>> THEN <<>>
  ELSE LET top == CHOOSE i \in 1..Len(sims) : \A j \in 1..Len(sims) :
                    sims[i] >= sims[j]
       IN  <<sims[top]>>
             \o SortedReverse([i \in 1..(Len(sims) - 1) |->
                                 IF i < top THEN sims[i] ELSE sims[i + 1]])

\* the multi-angle check with the test of the gap dropped
confidence_of_AlwaysAverage(sims) ==
  LET sims_sorted == SortedReverse(sims)
  IN  IF Len(sims_sorted) >= 2
        THEN (sims_sorted[1] + sims_sorted[2]) \div 2
        ELSE IF sims_sorted # <<>> THEN sims_sorted[1] ELSE 0

\* the body of `for emp_id, sims in emp_scores.items()`: the confidence of
\* one identity from its similarities among the neighbours
confidence_of(sims) ==
  LET sims_sorted == SortedReverse(sims)
  IN  IF Len(sims_sorted) >= 2
        THEN IF sims_sorted[1] - sims_sorted[2] <= GAP
               THEN (sims_sorted[1] + sims_sorted[2]) \div 2
               ELSE (sims_sorted[1] * PENALTY_TENTHS) \div 10
        ELSE IF sims_sorted # <<>> THEN sims_sorted[1] ELSE 0

\* What search returns for a slot it cannot fill (k above the size of the
\* index): label -1, here position 0, with the lowest float
FLT_LOWEST == 0 - 1000000

\* similarities[0] and indices[0] of faiss_index.search(query, k)
Neighbours(index, k) ==
  LET found == search(index, k)
  IN  [i \in 1..k |->
         IF i <= Len(found)
           THEN [idx |-> found[i], sim |-> index.vecs[found[i]]]
           ELSE [idx |-> 0, sim |-> FLT_LOWEST]]

\* self.emp_id_map[idx], where Python's index -1 is the last element
MapAt(id_map, idx) == IF idx = 0 THEN id_map[Len(id_map)] ELSE id_map[idx]

\* emp_scores: the identities in the order they first appear among the
\* neighbours, and the similarities of one identity
RECURSIVE ScoreKeys(_, _)
ScoreKeys(ids, seen) ==
  IF ids = <<>> THEN <<>>
  ELSE IF Head(ids) \in seen THEN ScoreKeys(Tail(ids), seen)
  ELSE <<Head(ids)>> \o ScoreKeys(Tail(ids), seen \cup {Head(ids)})

RECURSIVE ScoresOf(_, _, _)
ScoresOf(emp_id, ids, nbrs) ==
  IF ids = <<>> THEN <<>>
  ELSE (IF Head(ids) = emp_id THEN <<Head(nbrs).sim>> ELSE <<>>)
         \o ScoresOf(emp_id, Tail(ids), Tail(nbrs))

\* the loop keeping whichever identity comes last
RECURSIVE BestOf_KeepsLast(_, _, _, _)
BestOf_KeepsLast(keys, ids, nbrs, best) ==
  IF keys = <<>> THEN best
  ELSE BestOf_KeepsLast(Tail(keys), ids, nbrs,
         Match(Head(keys), confidence_of(ScoresOf(Head(keys), ids, nbrs))))

\* the loop over emp_scores.items() that keeps the best identity
RECURSIVE BestOf(_, _, _, _)
BestOf(keys, ids, nbrs, best) ==
  IF keys = <<>> THEN best
  ELSE LET confidence == confidence_of(ScoresOf(Head(keys), ids, nbrs))
       IN  BestOf(Tail(keys), ids, nbrs,
                  IF confidence > best.confidence
                    THEN Match(Head(keys), confidence) ELSE best)

\* FaceRecognitionServiceFAISS.recognize_face
recognize_face(index, id_map, cache) ==
  IF ~index.built \/ Len(id_map) = 0 THEN NoMatch(0)
  ELSE LET k    == Min(TOP_K, Len(cache))
           nbrs == Neighbours(index, k)
       IN  IF \E i \in 1..k : nbrs[i].idx > Len(id_map)
             THEN NoMatch(0)                       \* IndexError, caught
           ELSE LET ids  == [i \in 1..k |-> MapAt(id_map, nbrs[i].idx)]
                    best == BestOf(ScoreKeys(ids, {}), ids, nbrs, NoMatch(0))
                IN  IF best.confidence >= recognition_threshold
                      THEN best
                      ELSE NoMatch(best.confidence)

\* ----------------------------------------------------- the camera workers
WorkerIds == (1..MaxSessions) \X Cams
\* The frames a camera may deliver: up to MaxFaces matched faces, each an
\* identity with the matcher's confidence.  A camera matches at one
\* confidence level, the entry camera at the higher one.
CamConf      == [entry |-> 90, exit |-> 60]
Faces(c)     == [emp_id : Employees, confidence : {CamConf[c]}]
FaceSeqs(c)  == UNION {[1..n -> Faces(c)] : n \in 0..MaxFaces}

\* `failed` is not a variable of the code: it counts the connection
\* attempts in a row that left the task without an opened capture source.
NoWorker ==
  [pc |-> "none", frame_count |-> 0, reconnect_attempts |-> 0, failed |-> 0,
   timestamp |-> NULL, faces |-> <<>>, result |-> NoResult]
NewWorker == [NoWorker EXCEPT !.pc = "created"]
\* a task that has returned: its locals are gone
Stopped   == [NoWorker EXCEPT !.pc = "done"]

Live(w) == workers[w].pc \in {"created", "outer", "inner", "faces"}

\* CameraService.__init__, and daily_reset_task: the counters of the dashboard
NoStats == [total_faces |-> 0, recognized |-> 0, unknown |-> 0]

\* The enrollment store is up when the process starts: startup has made the
\* schema and read the embeddings.
InitSession ==
  /\ clock = 0
  /\ table = {}
  /\ workers = [w \in WorkerIds |-> NoWorker]
  /\ loop = NoTask
  /\ frames_read = 0
  /\ is_monitoring = FALSE
  /\ started_by = None
  /\ starter = None
  /\ stopper = None
  /\ sessions = 0
  /\ active_connections = {}
  /\ broken = {}
  /\ start_lock = None
  /\ vpc = [v \in Viewers |-> "closed"]
  /\ sent = NoSend
  /\ last_frame = [c \in Cams |-> None]
  /\ stats = NoStats
  /\ store_ok = TRUE

\* FaceRecognitionServiceFAISS.__init__
Constructed ==
  /\ face_map = NoEnrollment
  /\ embeddings_cache = <<>>
  /\ emp_id_map = <<>>
  /\ faiss_index = NoIndex
  /\ answer = NoAnswer
  /\ stale = FALSE

Init == InitSession /\ enrolled = NoEnrollment /\ Constructed

\* What an attempt to open the capture source may come to.  cv2.VideoCapture
\* does not raise when the source cannot be opened: it returns a capture
\* that is not opened, whose grab and read return nothing.  "raises" is an
\* exception out of the set-up (the configuration has no usable URL).
Healthy   == {"opened"}
Raising   == {"opened", "raises"}
Offline   == {"opened", "unopened", "raises"}
MaxFailed == max_reconnect + 1

\* process_camera, the outer loop: test the flag and the reconnect count,
\* open the capture source, reset the count and enter the inner loop; an
\* exception is counted and followed by the sleep of 2 ** reconnect_attempts.
WorkerConnect(w, outcomes) ==
  /\ loop = NoTask
  /\ workers[w].pc \in {"created", "outer"}
  /\ IF is_monitoring /\ workers[w].reconnect_attempts < max_reconnect
       THEN \/ /\ "opened" \in outcomes
               /\ workers' = [workers EXCEPT ![w].pc = "inner",
                                             ![w].reconnect_attempts = 0,
                                             ![w].failed = 0]
               /\ loop' = w
            \/ /\ "unopened" \in outcomes
               /\ workers[w].failed < MaxFailed
               /\ workers' = [workers EXCEPT ![w].pc = "inner",
                                             ![w].reconnect_attempts = 0,
                                             ![w].failed = workers[w].failed + 1]
               /\ loop' = w
            \/ /\ "raises" \in outcomes
               /\ workers[w].failed < MaxFailed
               /\ workers' = [workers EXCEPT ![w].pc = "outer",
                     ![w].reconnect_attempts = workers[w].reconnect_attempts + 1,
                     ![w].failed = workers[w].failed + 1]
               /\ loop' = NoTask
       ELSE /\ workers' = [workers EXCEPT ![w] = Stopped]
            /\ loop' = NoTask
  /\ sent' = NoSend
  /\ UNCHANGED <<clock, table, frames_read, is_monitoring, started_by, starter, stopper,
                 sessions, active_connections, broken, start_lock, vpc, last_frame>>
  /\ UNCHANGED matcher
  /\ UNCHANGED stats

\* a rebuild that leaves an index object behind for an empty enrollment
load_face_map_EmptyIndex(fm, outcome) ==
  LET cache == FlattenEmbeddings(fm, RowOrder)
  IN  /\ outcome = "ok"
      /\ face_map' = fm
      /\ embeddings_cache' = cache
      /\ emp_id_map' = FlattenIds(fm, RowOrder)
      /\ faiss_index' = IndexFlatIP(cache)
      /\ stale' = FALSE

\* load_face_map(fm), by how far it gets: "ok" to its end, "array" up to an
\* exception while the array and the index are made (the lists are the new
\* ones, the index is the one before), "add" up to an exception in
\* faiss_index.add (the index is the new one, still empty).
load_face_map(fm, outcome) ==
  LET cache == FlattenEmbeddings(fm, RowOrder)
  IN  /\ outcome \in (IF cache = <<>> THEN {"ok"} ELSE {"ok", "array", "add"})
      /\ face_map' = fm
      /\ embeddings_cache' = cache
      /\ emp_id_map' = FlattenIds(fm, RowOrder)
      /\ faiss_index' = IF cache = <<>> THEN NoIndex
                        ELSE IF outcome = "ok" THEN IndexFlatIP(cache)
                        ELSE IF outcome = "add" THEN IndexFlatIP(<<>>)
                        ELSE faiss_index
      /\ stale' = IF outcome = "ok" THEN FALSE ELSE stale

\* load_all_embeddings: the embeddings of the active employees, and an
\* empty face map when the query raises a PostgresError
load_all_embeddings == IF store_ok THEN enrolled ELSE NoEnrollment

\* the reload made from the face map in memory, without asking the store
ReloadWhenStale_FromMemory ==
  IF stale
    THEN /\ load_face_map(face_map, "ok")
         /\ answer' = NoAnswer
         /\ UNCHANGED <<enrolled, store_ok>>
    ELSE UNCHANGED matcher

\* process_camera, first statement of the inner loop's body: when the face
\* map is older than the reload age, load_all_embeddings and load_face_map
\* (the rebuild runs to its end here; ReloadFaceMap has its failures)
ReloadWhenStale ==
  IF stale
    THEN /\ load_face_map(load_all_embeddings, "ok")
         /\ answer' = NoAnswer
         /\ UNCHANGED <<enrolled, store_ok>>
    ELSE UNCHANGED matcher

\* the inner loop as `while True`: the flag is not polled between frames
WorkerFrame_IgnoresFlag(w, frames, fails) ==
  /\ loop \in {NoTask, w}
  /\ workers[w].pc = "inner"
  /\ IF workers[w].frame_count % FRAME_SKIP # 0
       THEN /\ workers' = [workers EXCEPT
                 ![w].frame_count = (workers[w].frame_count + 1) % FRAME_SKIP]
            /\ loop' = NoTask
            /\ UNCHANGED <<clock, frames_read, stats>>
       ELSE \/ /\ fails \/ workers[w].failed > 0
               /\ workers' = [workers EXCEPT ![w].pc = "outer"]
               /\ loop' = NoTask
               /\ UNCHANGED <<clock, frames_read, stats>>
            \/ \E fs \in frames[w[2]], now \in clock..MaxClock :
                 /\ workers[w].failed = 0
                 /\ frames_read < MaxFrames
                 /\ frames_read' = frames_read + 1
                 /\ clock' = now
                 /\ workers' = [workers EXCEPT
                      ![w].pc = "faces",
                      ![w].frame_count = (workers[w].frame_count + 1) % FRAME_SKIP,
                      ![w].timestamp = now,
                      ![w].faces = fs]
                 /\ stats' = [stats EXCEPT !.total_faces = @ + Len(fs)]
                 /\ loop' = w
  /\ sent' = NoSend
  /\ UNCHANGED <<table, is_monitoring, started_by, starter, stopper, sessions,
                 active_connections, broken, start_lock, vpc, last_frame>>
  /\ ReloadWhenStale

\* process_camera, inner loop head: leave when monitoring is off; else
\* reload the face map when it is stale, then drain a skipped frame, or read
\* the next frame, stamp it with datetime.now(IST), which has moved on by any
\* amount since it was last read, and count its faces.  With `fails`
\* the capture source may return no frame; a capture that is not opened
\* always does.
WorkerFrame(w, frames, fails) ==
  /\ loop \in {NoTask, w}
  /\ workers[w].pc = "inner"
  /\ IF ~is_monitoring
       THEN /\ workers' = [workers EXCEPT ![w] = Stopped]
            /\ loop' = NoTask
            /\ UNCHANGED <<clock, frames_read, stats>>
       ELSE IF workers[w].frame_count % FRAME_SKIP # 0
         THEN /\ workers' = [workers EXCEPT
                   ![w].frame_count = (workers[w].frame_count + 1) % FRAME_SKIP]
              /\ loop' = NoTask
              /\ UNCHANGED <<clock, frames_read, stats>>
         ELSE \/ /\ fails \/ workers[w].failed > 0
                 /\ workers' = [workers EXCEPT ![w].pc = "outer"]
                 /\ loop' = NoTask
                 /\ UNCHANGED <<clock, frames_read, stats>>
              \/ \E fs \in frames[w[2]], now \in clock..MaxClock :
                   /\ workers[w].failed = 0
                   /\ frames_read < MaxFrames
                   /\ frames_read' = frames_read + 1
                   /\ clock' = now
                   /\ workers' = [workers EXCEPT
                        ![w].pc = "faces",
                        ![w].frame_count = (workers[w].frame_count + 1) % FRAME_SKIP,
                        ![w].timestamp = now,
                        ![w].faces = fs]
                   /\ stats' = [stats EXCEPT !.total_faces = @ + Len(fs)]
                   /\ loop' = w
  /\ sent' = NoSend
  /\ UNCHANGED <<table, is_monitoring, started_by, starter, stopper, sessions,
                 active_connections, broken, start_lock, vpc, last_frame>>
  /\ IF is_monitoring THEN ReloadWhenStale ELSE UNCHANGED matcher

\* the test before the attendance broadcast without its look at the action
Announced_EverySuccess(result) == result.success

\* `if result['success'] and result.get('action') != 'skipped'`, the test
\* before the attendance broadcast
Announced(result) == result.success /\ result.action # "skipped"

\* a store fault that raises out of the ledger call and ends the frame
WorkerLogFace_FaultRaises(w, faults) ==
  /\ loop \in {NoTask, w}
  /\ workers[w].pc = "faces"
  /\ workers[w].faces # <<>>
  /\ \E fault \in (IF faults THEN BOOLEAN ELSE {FALSE}) :
     LET face   == Head(workers[w].faces)
         camera == CAMERA_CONFIG[w[2]]
         done   == log_attendance_update_only(table, face.emp_id, camera.purpose,
                      camera.id, face.confidence, workers[w].timestamp)
         tell   == Announced(done.result)
     IN  IF fault
           THEN /\ table' = table
                /\ workers' = [workers EXCEPT
                      ![w].pc = "outer", ![w].faces = <<>>,
                      ![w].timestamp = NULL, ![w].result = NoResult,
                      ![w].reconnect_attempts = workers[w].reconnect_attempts + 1]
                /\ sent' = NoSend
                /\ loop' = NoTask
           ELSE /\ table' = done.table
                /\ workers' = [workers EXCEPT ![w].faces = Tail(workers[w].faces),
                                              ![w].result = done.result]
                /\ sent' = IF tell
                             THEN Broadcast(active_connections,
                                            AttendanceMsg(face.emp_id, done.result.action))
                             ELSE NoSend
                /\ loop' = IF tell /\ active_connections # {} THEN NoTask ELSE w
  /\ stats' = [stats EXCEPT !.recognized = @ + 1]
  /\ UNCHANGED <<clock, frames_read, is_monitoring, started_by, starter, stopper,
                 sessions, active_connections, broken, start_lock, vpc, last_frame>>
  /\ UNCHANGED matcher

\* process_camera, one pass of `for face in faces`: the ledger call and the
\* attendance broadcast, which suspends the task when a viewer is connected.
\* With `faults` the store may raise a PostgresError during the call.
WorkerLogFace(w, faults) ==
  /\ loop \in {NoTask, w}
  /\ workers[w].pc = "faces"
  /\ workers[w].faces # <<>>
  /\ \E fault \in (IF faults THEN BOOLEAN ELSE {FALSE}) :
     LET face   == Head(workers[w].faces)
         camera == CAMERA_CONFIG[w[2]]
         done   == log_attendance_update_only(table, face.emp_id, camera.purpose,
                      camera.id, face.confidence, workers[w].timestamp)
         out    == IF fault THEN StoreFault(table, done) ELSE done
         tell   == Announced(out.result)
     IN  /\ table' = out.table
         /\ workers' = [workers EXCEPT ![w].faces = Tail(workers[w].faces),
                                       ![w].result = out.result]
         /\ sent' = IF tell
                      THEN Broadcast(active_connections,
                                     AttendanceMsg(face.emp_id, out.result.action))
                      ELSE NoSend
         /\ loop' = IF tell /\ active_connections # {} THEN NoTask ELSE w
  /\ stats' = [stats EXCEPT !.recognized = @ + 1]
  /\ UNCHANGED <<clock, frames_read, is_monitoring, started_by, starter, stopper,
                 sessions, active_connections, broken, start_lock, vpc, last_frame>>
  /\ UNCHANGED matcher

\* process_camera, after the faces: send_frame and the sleep that follows
WorkerSendFrame(w) ==
  /\ loop \in {NoTask, w}
  /\ workers[w].pc = "faces"
  /\ workers[w].faces = <<>>
  /\ sent' = Broadcast(active_connections, FrameMsg(w[2]))
  /\ last_frame' = BroadcastCache(last_frame, active_connections, FrameMsg(w[2]))
  /\ workers' = [workers EXCEPT ![w].pc = "inner", ![w].timestamp = NULL,
                                ![w].result = NoResult]
  /\ loop' = NoTask
  /\ UNCHANGED <<clock, table, frames_read, is_monitoring, started_by, starter, stopper,
                 sessions, active_connections, broken, start_lock, vpc>>
  /\ UNCHANGED matcher
  /\ UNCHANGED stats

\* ------------------------------------------------------- the /ws handler
\* websocket_endpoint, WebSocketManager.connect: accept, register, send the
\* connection status.  The handler may be suspended in that send, so the
\* rest of the greeting is a step of its own.
Connect(v) ==
  /\ loop = NoTask
  /\ vpc[v] = "closed"
  /\ active_connections' = active_connections \cup {v}
  /\ vpc' = [vpc EXCEPT ![v] = IF is_monitoring THEN "joined_late" ELSE "joined"]
  /\ sent' = SendTo(v, <<ConnectionStatus(is_monitoring, user_role(v) = "admin")>>)
  /\ UNCHANGED <<clock, table, workers, loop, frames_read, is_monitoring,
                 started_by, starter, stopper, sessions, broken, start_lock,
                 last_frame>>
  /\ UNCHANGED matcher
  /\ UNCHANGED stats

\* websocket_endpoint between connect and the receive loop: the cached
\* frames and the status, when monitoring is on by now
ConnectGreet(v) ==
  /\ loop = NoTask
  /\ vpc[v] \in {"joined", "joined_late"}
  /\ vpc' = [vpc EXCEPT ![v] = "idle"]
  /\ sent' = SendTo(v,
       IF is_monitoring
         THEN send_cached_frames(last_frame)
                \o <<StatusMsg("already_running", started_by)>>
         ELSE <<>>)
  /\ UNCHANGED <<clock, table, workers, loop, frames_read, is_monitoring,
                 started_by, starter, stopper, sessions, active_connections,
                 broken, start_lock, last_frame>>
  /\ UNCHANGED matcher
  /\ UNCHANGED stats

\* the peer of a registered viewer goes away: every later send_json on the
\* socket raises, and receive_text will raise WebSocketDisconnect
Break(v) ==
  /\ loop = NoTask
  /\ vpc[v] = "idle"
  /\ v \notin broken
  /\ broken' = broken \cup {v}
  /\ sent' = NoSend
  /\ UNCHANGED <<clock, table, workers, loop, frames_read, is_monitoring,
                 started_by, starter, stopper, sessions, active_connections,
                 start_lock, vpc, last_frame>>
  /\ UNCHANGED matcher
  /\ UNCHANGED stats

\* a disconnect that ends the session of the departing starter
Disconnect_EndsSession(v) ==
  /\ loop = NoTask
  /\ vpc[v] = "idle"
  /\ active_connections' = active_connections \ {v}
  /\ broken' = broken \ {v}
  /\ vpc' = [vpc EXCEPT ![v] = "closed"]
  /\ sent' = NoSend
  /\ is_monitoring' = IF v = starter THEN FALSE ELSE is_monitoring
  /\ UNCHANGED <<clock, table, workers, loop, frames_read,
                 started_by, starter, stopper, sessions, start_lock, last_frame>>
  /\ UNCHANGED matcher
  /\ UNCHANGED stats

\* WebSocketDisconnect out of receive_text: WebSocketManager.disconnect
Disconnect(v) ==
  /\ loop = NoTask
  /\ vpc[v] = "idle"
  /\ active_connections' = active_connections \ {v}
  /\ broken' = broken \ {v}
  /\ vpc' = [vpc EXCEPT ![v] = "closed"]
  /\ sent' = NoSend
  /\ UNCHANGED <<clock, table, workers, loop, frames_read, is_monitoring,
                 started_by, starter, stopper, sessions, start_lock, last_frame>>
  /\ UNCHANGED matcher
  /\ UNCHANGED stats

\* {action: start} received: the handler asks for start_lock
StartRequest(v) ==
  /\ loop = NoTask
  /\ vpc[v] = "idle"
  /\ v \notin broken
  /\ vpc' = [vpc EXCEPT ![v] = "waitlock"]
  /\ sent' = NoSend
  /\ UNCHANGED <<clock, table, workers, loop, frames_read, is_monitoring,
                 started_by, starter, stopper, sessions, active_connections, broken, start_lock,
                 last_frame>>
  /\ UNCHANGED matcher
  /\ UNCHANGED stats

\* the start branch without its test of the flag
MayStart_Always == TRUE

\* the test `if not ws_manager.is_monitoring` of the start branch
MayStart == ~is_monitoring

\* the body of `async with ws_manager.start_lock` up to its first send
StartEnter(v, maxSessions) ==
  /\ loop = NoTask
  /\ vpc[v] = "waitlock"
  /\ start_lock = None
  /\ start_lock' = v
  /\ IF MayStart
       THEN /\ sessions < maxSessions
            /\ is_monitoring' = TRUE
            /\ started_by' = user_name(v)
            /\ starter' = v
            /\ stopper' = None
            /\ sessions' = sessions + 1
            /\ workers' = [w \in WorkerIds |->
                 IF w[1] = sessions + 1 THEN NewWorker ELSE workers[w]]
            /\ sent' = Broadcast(active_connections,
                                 StatusMsg("started", user_name(v)))
            /\ vpc' = [vpc EXCEPT ![v] = "started"]
       ELSE /\ sent' = SendTo(v, <<StatusMsg("already_running", started_by)>>)
            /\ vpc' = [vpc EXCEPT ![v] = "replay"]
            /\ UNCHANGED <<is_monitoring, started_by, starter, stopper, sessions, workers>>
  /\ UNCHANGED <<clock, table, loop, frames_read, active_connections, broken, last_frame>>
  /\ UNCHANGED matcher
  /\ UNCHANGED stats

\* the rest of the start branch: send_cached_frames for a late start, then
\* the lock is released
StartFinish(v) ==
  /\ loop = NoTask
  /\ vpc[v] \in {"started", "replay"}
  /\ start_lock' = None
  /\ vpc' = [vpc EXCEPT ![v] = "idle"]
  /\ sent' = IF vpc[v] = "replay" THEN SendTo(v, send_cached_frames(last_frame))
                                  ELSE NoSend
  /\ UNCHANGED <<clock, table, workers, loop, frames_read, is_monitoring,
                 started_by, starter, stopper, sessions, active_connections, broken, last_frame>>
  /\ UNCHANGED matcher
  /\ UNCHANGED stats

\* the stop branch without its permission test
MayStop_Anyone(v) == TRUE

\* the permission test of the stop branch
MayStop(v) == user_role(v) = "admin" \/ user_name(v) = started_by

\* a stop that flips the flag
Stop_Toggles(v) ==
  /\ loop = NoTask
  /\ vpc[v] = "idle"
  /\ v \notin broken
  /\ IF MayStop(v)
       THEN /\ is_monitoring' = ~is_monitoring
            /\ stopper' = v
            /\ sent' = Broadcast(active_connections,
                                 StatusMsg("stopped", user_name(v)))
       ELSE /\ sent' = SendTo(v, <<ErrorMsg(started_by)>>)
            /\ UNCHANGED <<is_monitoring, stopper>>
  /\ UNCHANGED <<clock, table, workers, loop, frames_read, started_by, starter,
                 sessions, active_connections, broken, start_lock, vpc, last_frame>>
  /\ UNCHANGED matcher
  /\ UNCHANGED stats

\* {action: stop}
Stop(v) ==
  /\ loop = NoTask
  /\ vpc[v] = "idle"
  /\ v \notin broken
  /\ IF MayStop(v)
       THEN /\ is_monitoring' = FALSE
            /\ stopper' = v
            /\ sent' = Broadcast(active_connections,
                                 StatusMsg("stopped", user_name(v)))
       ELSE /\ sent' = SendTo(v, <<ErrorMsg(started_by)>>)
            /\ UNCHANGED <<is_monitoring, stopper>>
  /\ UNCHANGED <<clock, table, workers, loop, frames_read, started_by, starter,
                 sessions, active_connections, broken, start_lock, vpc, last_frame>>
  /\ UNCHANGED matcher
  /\ UNCHANGED stats

\* ------------------------------------------------- the matcher's callers
Outcomes(fails) == IF fails THEN {"ok", "array", "add"} ELSE {"ok"}

\* startup, update_employee, finalize_registration: load_all_embeddings,
\* then load_face_map
ReloadFaceMap(fails) ==
  /\ \E outcome \in Outcomes(fails) : load_face_map(load_all_embeddings, outcome)
  /\ answer' = NoAnswer
  /\ UNCHANGED <<enrolled, store_ok>>
  /\ UNCHANGED session

\* delete_employee: the row goes, then load_all_embeddings and load_face_map
DeleteEmployee(emp_id, fails) ==
  /\ store_ok
  /\ enrolled[emp_id] # <<>>
  /\ enrolled' = [enrolled EXCEPT ![emp_id] = <<>>]
  /\ \E outcome \in Outcomes(fails) : load_face_map(enrolled', outcome)
  /\ answer' = NoAnswer
  /\ UNCHANGED store_ok
  /\ UNCHANGED session

\* capture_face: save_face_embedding writes the embedding of one more angle
\* to the employee's row; the face map in memory is not rebuilt.  The poses
\* stay listed best first.
capture_face(emp_id, sim) ==
  /\ loop = NoTask
  /\ store_ok
  /\ Len(enrolled[emp_id]) < MaxPoses
  /\ \A i \in 1..Len(enrolled[emp_id]) : enrolled[emp_id][i] >= sim
  /\ enrolled' = [enrolled EXCEPT ![emp_id] = Append(@, sim)]
  /\ UNCHANGED <<face_map, embeddings_cache, emp_id_map, faiss_index, answer,
                 stale, store_ok>>
  /\ UNCHANGED session

\* time.time() passes last_reload + max_age_seconds
WindowElapses ==
  /\ ~stale
  /\ stale' = TRUE
  /\ UNCHANGED <<enrolled, face_map, embeddings_cache, emp_id_map, faiss_index,
                 answer, store_ok>>
  /\ UNCHANGED session

\* the store stops answering (get_connection or the query raises a
\* PostgresError), and answers again
StoreFails ==
  /\ store_ok
  /\ store_ok' = FALSE
  /\ UNCHANGED <<enrolled, face_map, embeddings_cache, emp_id_map, faiss_index,
                 answer, stale>>
  /\ UNCHANGED session

StoreRecovers ==
  /\ ~store_ok
  /\ store_ok' = TRUE
  /\ UNCHANGED <<enrolled, face_map, embeddings_cache, emp_id_map, faiss_index,
                 answer, stale>>
  /\ UNCHANGED session

\* a face of a frame is put to the matcher
Recognize ==
  /\ answer' = recognize_face(faiss_index, emp_id_map, embeddings_cache)
  /\ UNCHANGED <<enrolled, face_map, embeddings_cache, emp_id_map, faiss_index,
                 stale, store_ok>>
  /\ UNCHANGED session

\* daily_reset_task, run by the scheduler thread: camera_service.stats is
\* replaced by a dict of zeros.  The thread does not wait for the event
\* loop, so the step can come between any two steps of a camera task; an
\* increment that lands in the replaced dict is an increment before the
\* reset.
daily_reset_task ==
  /\ stats' = NoStats
  /\ UNCHANGED <<clock, table, workers, loop, frames_read, is_monitoring,
                 started_by, starter, stopper, sessions, active_connections,
                 broken, start_lock, vpc, sent, last_frame>>
  /\ UNCHANGED matcher

\* --------------------------------------------------------- specifications
\* Two cameras in front of which people pass, one viewer who starts the
\* monitoring session and stays, a capture source that always has a frame
\* and never raises.  A frame shows a person at most once.
EveryFrame ==
  [c \in Cams |-> {fs \in FaceSeqs(c) :
                     \A i, j \in 1..Len(fs) : fs[i] = fs[j] => i = j}]

Next ==
  \/ \E w \in WorkerIds : WorkerConnect(w, Healthy)
  \/ \E w \in WorkerIds : WorkerFrame(w, EveryFrame, FALSE)
  \/ \E w \in WorkerIds : WorkerLogFace(w, FALSE)
  \/ \E w \in WorkerIds : WorkerSendFrame(w)
  \/ Connect("v1")
  \/ ConnectGreet("v1")
  \/ ~is_monitoring /\ StartRequest("v1")
  \/ StartEnter("v1", 1)
  \/ StartFinish("v1")

Spec == Init /\ [][Next]_vars

\* A viewer who stops and starts again, an entry camera whose reads return
\* no frame and one person in front of the exit camera.
ExitFrames ==
  [c \in Cams |-> IF c = "exit"
                    THEN {fs \in FaceSeqs(c) :
                            \A i \in 1..Len(fs) : fs[i].emp_id = "E001"}
                    ELSE {}]

NextRestart ==
  \/ \E w \in WorkerIds : WorkerConnect(w, Healthy)
  \/ \E w \in WorkerIds : WorkerFrame(w, ExitFrames, TRUE)
  \/ \E w \in WorkerIds : WorkerLogFace(w, FALSE)
  \/ \E w \in WorkerIds : WorkerSendFrame(w)
  \/ Connect("v1")
  \/ ConnectGreet("v1")
  \/ StartRequest("v1")
  \/ StartEnter("v1", MaxSessions)
  \/ StartFinish("v1")
  \/ Stop("v1")

SpecRestart == Init /\ [][NextRestart]_vars

\* All the viewers, an entry camera whose reads return no frame, and an exit
\* camera whose task has not run yet.
NoFrames == [c \in Cams |-> {}]

NextHub ==
  \/ \E w \in WorkerIds : w[2] = "entry" /\ WorkerConnect(w, Healthy)
  \/ \E w \in WorkerIds : w[2] = "entry" /\ WorkerFrame(w, NoFrames, TRUE)
  \/ \E v \in Viewers : Connect(v)
  \/ \E v \in Viewers : ConnectGreet(v)
  \/ \E v \in Viewers : Disconnect(v)
  \/ \E v \in Viewers : StartRequest(v)
  \/ \E v \in Viewers : StartEnter(v, MaxSessions)
  \/ \E v \in Viewers : StartFinish(v)
  \/ \E v \in Viewers : Stop(v)

SpecHub == Init /\ [][NextHub]_vars

\* Two viewers who come and go, one of whom starts monitoring, and cameras
\* with nobody in view.
EmptyFrames == [c \in Cams |-> {<<>>}]
Joiners     == {"v1", "v2"}

NextJoin ==
  \/ \E w \in WorkerIds : WorkerConnect(w, Healthy)
  \/ \E w \in WorkerIds : WorkerFrame(w, EmptyFrames, FALSE)
  \/ \E w \in WorkerIds : WorkerSendFrame(w)
  \/ \E v \in Joiners : Connect(v)
  \/ \E v \in Joiners : ConnectGreet(v)
  \/ \E v \in Joiners : Break(v)
  \/ \E v \in Joiners : Disconnect(v)
  \/ \E v \in Joiners : StartRequest(v)
  \/ \E v \in Joiners : StartEnter(v, 1)
  \/ \E v \in Joiners : StartFinish(v)

SpecJoin == Init /\ [][NextJoin]_vars

\* The matcher over every enrollment of up to MaxPoses poses per employee:
\* the index is built and the probe is put to it.
InitMatch == InitSession /\ enrolled \in Enrollments /\ Constructed

NextMatch ==
  \/ ReloadFaceMap(FALSE)
  \/ Recognize

SpecMatch == InitMatch /\ [][NextMatch]_vars

\* Rebuilds that may fail part-way, after employees are deleted.
NextRebuild ==
  \/ ReloadFaceMap(TRUE)
  \/ \E e \in Employees : DeleteEmployee(e, TRUE)
  \/ Recognize

SpecRebuild == InitMatch /\ [][NextRebuild]_vars

\* One viewer who starts monitoring once and may stop it, cameras with nobody
\* in view whose set-up may raise.  The event loop runs every task that is
\* ready, so a camera task that can take a step is not passed over for ever.
WorkerStep(w) ==
  \/ WorkerConnect(w, Raising)
  \/ WorkerFrame(w, EmptyFrames, FALSE)
  \/ WorkerSendFrame(w)

NextCancel ==
  \/ \E w \in WorkerIds : WorkerStep(w)
  \/ Connect("v1")
  \/ ConnectGreet("v1")
  \/ ~is_monitoring /\ StartRequest("v1")
  \/ StartEnter("v1", 1)
  \/ StartFinish("v1")
  \/ Stop("v1")

SpecCancel ==
  Init /\ [][NextCancel]_vars /\ \A w \in WorkerIds : WF_vars(WorkerStep(w))

\* One viewer who starts monitoring once and leaves it on, and cameras that
\* are out of reach: the source does not open, or opens and delivers nothing,
\* or the set-up raises.
NextOffline ==
  \/ \E w \in WorkerIds : WorkerConnect(w, Offline)
  \/ \E w \in WorkerIds : WorkerFrame(w, NoFrames, TRUE)
  \/ Connect("v1")
  \/ ConnectGreet("v1")
  \/ ~is_monitoring /\ StartRequest("v1")
  \/ StartEnter("v1", 1)
  \/ StartFinish("v1")

SpecOffline == Init /\ [][NextOffline]_vars

\* One viewer who starts monitoring once, frames that show nobody or one
\* person, and a store that may raise during any ledger call.
OneFace == [c \in Cams |-> {fs \in FaceSeqs(c) : Len(fs) <= 1}]

NextStore ==
  \/ \E w \in WorkerIds : WorkerConnect(w, Healthy)
  \/ \E w \in WorkerIds : WorkerFrame(w, OneFace, FALSE)
  \/ \E w \in WorkerIds : WorkerLogFace(w, TRUE)
  \/ \E w \in WorkerIds : WorkerSendFrame(w)
  \/ Connect("v1")
  \/ ConnectGreet("v1")
  \/ ~is_monitoring /\ StartRequest("v1")
  \/ StartEnter("v1", 1)
  \/ StartFinish("v1")

SpecStore == Init /\ [][NextStore]_vars

\* The entry camera streams frames that show nobody while faces are
\* registered, the reload age passes again and again, and the store may be
\* down at any time.
NewPoses == {820}

NextReload ==
  \/ \E w \in WorkerIds : w[2] = "entry" /\ WorkerConnect(w, Healthy)
  \/ \E w \in WorkerIds : w[2] = "entry" /\ WorkerFrame(w, EmptyFrames, FALSE)
  \/ \E w \in WorkerIds : w[2] = "entry" /\ WorkerSendFrame(w)
  \/ Connect("v1")
  \/ ConnectGreet("v1")
  \/ ~is_monitoring /\ StartRequest("v1")
  \/ StartEnter("v1", 1)
  \/ StartFinish("v1")
  \/ \E e \in Employees, sim \in NewPoses : capture_face(e, sim)
  \/ WindowElapses
  \/ StoreFails
  \/ StoreRecovers

SpecReload == Init /\ [][NextReload]_vars

\* Two cameras in front of which people pass, one viewer who starts
\* monitoring once, and the scheduler thread's reset at any moment.
NextStats ==
  \/ \E w \in WorkerIds : WorkerConnect(w, Healthy)
  \/ \E w \in WorkerIds : WorkerFrame(w, EveryFrame, FALSE)
  \/ \E w \in WorkerIds : WorkerLogFace(w, FALSE)
  \/ \E w \in WorkerIds : WorkerSendFrame(w)
  \/ Connect("v1")
  \/ ConnectGreet("v1")
  \/ ~is_monitoring /\ StartRequest("v1")
  \/ StartEnter("v1", 1)
  \/ StartFinish("v1")
  \/ daily_reset_task

SpecStats == Init /\ [][NextStats]_vars

\* ------------------------------------------------------------ properties
\* The step in which worker w makes its ledger call for the face at the head
\* of its list, and the event that call carries.
Called(w) ==
  /\ workers[w].pc = "faces"
  /\ workers[w].faces # <<>>
  /\ workers'[w].pc = "faces"
  /\ workers'[w].faces = Tail(workers[w].faces)
  /\ workers'[w].timestamp = workers[w].timestamp
EventKind(w) == CAMERA_CONFIG[w[2]].purpose
EventCam(w)  == CAMERA_CONFIG[w[2]].id
EventEmp(w)  == Head(workers[w].faces).emp_id
EventConf(w) == Head(workers[w].faces).confidence
EventDay(w)  == DateOf(workers[w].timestamp)
EventTime(w) == TimeOnly(workers[w].timestamp)
RowsBefore(w) == SelectExisting(table, EventEmp(w), EventDay(w))
RowsAfter(w)  == SelectExisting(table', EventEmp(w), EventDay(w))

\* C1: an IN event for an identity that has no record for the event's day
\* creates exactly one record with first-IN set from the event; an IN event
\* for an identity that has a record for that day returns 'skipped' and
\* leaves the record, and the whole table, unchanged.
C1_InOncePerDay ==
  [][\A w \in WorkerIds :
       (Called(w) /\ EventKind(w) = "IN") =>
         IF RowsBefore(w) = {}
           THEN /\ Cardinality(RowsAfter(w)) = 1
                /\ \A r \in RowsAfter(w) :
                     r.first_in = EventTime(w) /\ r.first_in # NULL
                /\ workers'[w].result = Result(TRUE, "inserted")
           ELSE /\ workers'[w].result = Result(TRUE, "skipped")
                /\ table' = table]_vars

\* an IN event has been skipped on the one record, which an earlier IN made
C1_Witness ==
  /\ Cardinality(table) = 1
  /\ \A r \in table : r.in_camera_id = "entry_camera"
  /\ \E w \in WorkerIds :
       w[2] = "entry" /\ workers[w].result = Result(TRUE, "skipped")

\* C2: in every record, first-IN <= last-OUT when both are set.
C2_InBeforeOut ==
  \A r \in table :
    (r.first_in # NULL /\ r.last_out # NULL) => r.first_in <= r.last_out

\* C3: an OUT event for an identity that has no record for the event's day
\* creates a record whose first-IN time, camera and confidence are the
\* event's and whose last-OUT columns are unset.
C3_OutFirstSighting ==
  [][\A w \in WorkerIds :
       (Called(w) /\ EventKind(w) = "OUT" /\ RowsBefore(w) = {}) =>
         /\ Cardinality(RowsAfter(w)) = 1
         /\ \A r \in RowsAfter(w) :
              /\ r.first_in = EventTime(w)
              /\ r.in_camera_id = EventCam(w)
              /\ r.in_confidence = EventConf(w)
              /\ r.last_out = NULL
              /\ r.out_camera_id = NoCam
              /\ r.out_confidence = NULL]_vars

\* the exit worker has just created a record
C3_Witness ==
  \E w \in WorkerIds :
    /\ w[2] = "exit"
    /\ workers[w].result = Result(TRUE, "inserted")
    /\ \E r \in table : r.in_camera_id = "exit_camera" /\ r.last_out = NULL

\* C4: the ledger holds at most one record per (identity, day).
C4_OneRowPerDay ==
  \A r1, r2 \in table :
    (r1.emp_id = r2.emp_id /\ r1.date = r2.date) => r1 = r2

\* the exit worker has made the one record and the entry worker's call for
\* the same identity and day has found it
C4_Witness ==
  /\ \E w \in WorkerIds :
       w[2] = "entry" /\ workers[w].result = Result(TRUE, "skipped")
  /\ \E w \in WorkerIds :
       w[2] = "exit" /\ workers[w].result = Result(TRUE, "inserted")
  /\ Cardinality(table) = 1
  /\ \A r \in table : r.in_camera_id = "exit_camera"

\* C5: no step changes the first-IN time, camera or confidence of a record
\* whose first-IN is set, or removes the record.
C5_FirstInKept ==
  [][\A r \in table :
       r.first_in # NULL =>
         \E r2 \in table' :
           /\ r2.id = r.id
           /\ r2.first_in = r.first_in
           /\ r2.in_camera_id = r.in_camera_id
           /\ r2.in_confidence = r.in_confidence]_vars

\* a record made by the entry camera has since taken an OUT event
C5_Witness ==
  \E r \in table :
    /\ r.in_camera_id = "entry_camera"
    /\ r.first_in # NULL
    /\ r.last_out # NULL

\* C6: a set last-OUT is only replaced by a time that is not earlier.
C6_LastOutGrows ==
  [][\A r \in table : \A r2 \in table' :
       (r2.id = r.id /\ r.last_out # NULL) => r2.last_out >= r.last_out]_vars

\* C7: every ledger call of either worker returns a success result and its
\* event is in the record afterwards: an IN leaves a record with first-IN
\* set, an OUT leaves the record with this event as its last-OUT, or as its
\* first-IN when the record had none; records of other keys are untouched.
C7_CallsSerialized ==
  [][\A w \in WorkerIds :
       Called(w) =>
         /\ workers'[w].result.success
         /\ Cardinality(RowsAfter(w)) = 1
         /\ \A r \in RowsAfter(w) :
              /\ r.first_in # NULL
              /\ EventKind(w) = "OUT" =>
                   \/ r.last_out = EventTime(w) /\ r.out_camera_id = EventCam(w)
                   \/ /\ RowsBefore(w) = {}
                      /\ r.first_in = EventTime(w)
                      /\ r.in_camera_id = EventCam(w)
         /\ table' \ RowsAfter(w) = table \ RowsBefore(w)]_vars

\* both workers are in the middle of a frame, each has made a call, and the
\* record of one identity holds an event of each camera
C7_Witness ==
  /\ \E w \in WorkerIds :
       w[2] = "entry" /\ workers[w].pc = "faces" /\ workers[w].result.success
  /\ \E w \in WorkerIds :
       w[2] = "exit" /\ workers[w].pc = "faces" /\ workers[w].result.success
  /\ \E r \in table :
       r.in_camera_id = "entry_camera" /\ r.out_camera_id = "exit_camera"

\* The step in which viewer v enters the body of the start branch
Entered(v) == vpc[v] = "waitlock" /\ vpc'[v] \in {"started", "replay"}

\* C8: a start that finds monitoring off sets the flag, records its viewer
\* as the starter and creates the two camera workers; a start that finds
\* monitoring on changes none of these and is answered 'already_running'
\* with the name of the viewer who made the transition; at most one viewer
\* is inside the start branch at a time.
C8_OneStartWins ==
  [][/\ \A v \in Viewers :
          Entered(v) =>
            IF ~is_monitoring
              THEN /\ is_monitoring'
                   /\ started_by' = user_name(v)
                   /\ starter' = v
                   /\ \A c \in Cams : workers'[<<sessions', c>>].pc = "created"
                   /\ Cardinality({w \in WorkerIds : workers'[w] # workers[w]}) = 2
                   /\ vpc'[v] = "started"
              ELSE /\ UNCHANGED <<is_monitoring, started_by, starter, workers>>
                   /\ started_by = user_name(starter)
                   /\ sent' = SendTo(v, <<StatusMsg("already_running",
                                                    user_name(starter))>>)
     /\ Cardinality({v \in Viewers : vpc'[v] \in {"started", "replay"}}) <= 1]_vars

\* one viewer has just been told 'already_running' after another made the
\* transition, while a third still waits for the lock
C8_Witness ==
  \E v, u \in Viewers :
    /\ vpc[v] = "replay"
    /\ starter \notin {v, u, None}
    /\ vpc[u] = "waitlock"
    /\ sent = SendTo(v, <<StatusMsg("already_running", user_name(starter))>>)

\* C9: at most one live camera worker per camera.
C9_OneWorkerPerCamera ==
  \A c \in Cams : Cardinality({w \in WorkerIds : w[2] = c /\ Live(w)}) <= 1

\* C10: the monitoring flag goes from true to false only by a stop of the
\* viewer who started the session or of an administrator.
C10_StopByStarterOrAdmin ==
  [][(is_monitoring /\ ~is_monitoring') =>
       (stopper' = starter \/ user_role(stopper') = "admin")]_vars

\* The code's reading of "not allowed to stop": neither an administrator
\* nor a viewer whose name is the recorded starter's.
Refused(v) == user_role(v) # "admin" /\ user_name(v) # started_by

C12_DisconnectKeepsSession ==
  [][\A v \in Viewers :
       (v \in active_connections /\ v \notin active_connections')
       => /\ active_connections' = active_connections \ {v}
          /\ UNCHANGED <<is_monitoring, started_by, starter, workers,
                         last_frame>>]_vars

\* the starter has left, monitoring is on and its workers are alive
C12_Witness ==
  /\ is_monitoring
  /\ starter \in Viewers
  /\ starter \notin active_connections
  /\ \E w \in WorkerIds : Live(w)

\* The step in which worker w publishes the frame it has processed
Published(w) ==
  /\ workers[w].pc = "faces"
  /\ workers[w].faces = <<>>
  /\ workers'[w].pc = "inner"
\* The step is a fan-out of a live frame
LiveFrame == sent'.via = "broadcast" /\ sent'.msgs[1].type = "frame"

\* C13: after a broadcast to a registry that holds a viewer whose socket
\* fails the send, that viewer is no longer registered.
C13_FailedViewerDropped ==
  [][sent'.via = "broadcast" =>
       \A v \in sent'.to \cap broken : v \notin active_connections']_vars

\* C14: after a worker publishes a frame of a camera, the last-frame cache
\* of that camera holds the frame, however many viewers are registered.
C14_EveryFrameCached ==
  [][\A w \in WorkerIds : Published(w) => last_frame'[w[2]] # None]_vars

\* C15: a viewer who registered while monitoring was on is not sent a live
\* frame while the replay of a non-empty cache is still to come.
C15_ReplayBeforeLive ==
  [][\A v \in Viewers :
       (LiveFrame /\ v \in sent'.to /\ \E c \in Cams : last_frame[c] # None)
       => vpc[v] # "joined_late"]_vars

\* C16: a start that finds monitoring on is answered, on the caller's socket
\* only, 'already_running' with the name of the viewer who made the
\* transition, and then, again on the caller's socket only, the cached
\* frame of exactly the cameras whose cache is not empty.
C16_LateStartReplay ==
  [][\A v \in Viewers :
       /\ (Entered(v) /\ is_monitoring) =>
            /\ sent'.to = {v}
            /\ sent'.via = "direct"
            /\ sent'.msgs = <<StatusMsg("already_running", user_name(starter))>>
            /\ vpc'[v] = "replay"
       /\ (vpc[v] = "replay" /\ vpc'[v] = "idle") =>
            /\ sent'.to \subseteq {v}
            /\ sent'.via # "broadcast"
            /\ \A c \in Cams :
                 last_frame[c] # None <=>
                   \E i \in 1..Len(sent'.msgs) : sent'.msgs[i] = FrameMsg(c)
            /\ Len(sent'.msgs) = Cardinality({c \in Cams : last_frame[c] # None})]_vars

\* a viewer other than the starter has just been replayed the cached frame
\* of both cameras at the end of its start
C16_Witness ==
  \E v \in Viewers :
    /\ is_monitoring
    /\ starter \notin {v, None}
    /\ vpc[v] = "idle"
    /\ sent = SendTo(v, <<FrameMsg("entry"), FrameMsg("exit")>>)

\* The matcher's inputs as the latest query saw them: the identities among
\* the neighbours and the similarities of each.
Queried      == answer # NoAnswer /\ faiss_index.built /\ emp_id_map # <<>>
PosesOf(e)   == {i \in 1..Len(emp_id_map) : emp_id_map[i] = e}
Present      == {e \in Employees : PosesOf(e) # {}}
TopPose(e)   == CHOOSE i \in PosesOf(e) : \A j \in PosesOf(e) :
                  faiss_index.vecs[i] >= faiss_index.vecs[j]
TopSim(e)    == faiss_index.vecs[TopPose(e)]
SecondSim(e) == LET rest == PosesOf(e) \ {TopPose(e)}
                    i    == CHOOSE i \in rest : \A j \in rest :
                              faiss_index.vecs[i] >= faiss_index.vecs[j]
                IN  faiss_index.vecs[i]
\* what the code computes for identity e from the neighbours of the query
Computed(e)  ==
  LET nbrs == Neighbours(faiss_index, Min(TOP_K, Len(embeddings_cache)))
      ids  == [i \in 1..Len(nbrs) |-> MapAt(emp_id_map, nbrs[i].idx)]
  IN  confidence_of(ScoresOf(e, ids, nbrs))

\* C17: for every identity among the neighbours of a query, twice the
\* confidence is the sum of its two best similarities when it has two or
\* more poses no more than 0.08 apart at the top; ten times the confidence
\* is six times the best similarity when the gap is larger; and the
\* confidence is the one similarity when it has one pose.
C17_ConfidenceRule ==
  Queried =>
    \A e \in Present :
      IF Cardinality(PosesOf(e)) >= 2
        THEN IF TopSim(e) - SecondSim(e) <= 80
               THEN 2 * Computed(e) = TopSim(e) + SecondSim(e)
               ELSE 10 * Computed(e) = 6 * TopSim(e)
        ELSE Computed(e) = TopSim(e)

\* the documented example: E001 with poses 0.82 and 0.77 is matched at
\* 0.795 while E002 with poses 0.50 and 0.30 stays at 0.30
C17_Witness ==
  /\ face_map = [e \in Employees |->
                   IF e = "E001" THEN <<820, 770>> ELSE <<500, 300>>]
  /\ answer = Match("E001", 795)

BestObserved == CHOOSE c \in {Computed(e) : e \in Present} :
                  \A e \in Present : c >= Computed(e)
BestOrZero   == IF BestObserved > 0 THEN BestObserved ELSE 0

\* C18 as stated: the query returns the identity of highest confidence when
\* that confidence is at least 0.40, otherwise no identity with the best
\* confidence observed; the confidence returned is in [0,1].
C18_BestObservedReturned ==
  Queried =>
    /\ answer.confidence = BestObserved
    /\ answer.confidence >= 0 /\ answer.confidence <= 1000
    /\ IF BestObserved >= 400
         THEN answer.emp_id \in Present /\ Computed(answer.emp_id) = BestObserved
         ELSE answer.emp_id = None

\* C18, amended: the query returns the identity of highest confidence when
\* that confidence is at least 0.40, otherwise no identity with the best
\* confidence observed or 0 when every confidence is negative; the
\* confidence returned is in [0,1].
C18_BestOrZeroReturned ==
  Queried =>
    /\ answer.confidence = BestOrZero
    /\ answer.confidence >= 0 /\ answer.confidence <= 1000
    /\ IF BestOrZero >= 400
         THEN answer.emp_id \in Present /\ Computed(answer.emp_id) = BestOrZero
         ELSE answer.emp_id = None

\* a query has returned no identity and confidence 0 although both
\* identities are among the neighbours, each with a negative confidence
C18_Witness ==
  /\ Queried
  /\ Present = Employees
  /\ \A e \in Present : Computed(e) < 0
  /\ answer = NoMatch(0)

\* C19: a rebuild from an enrollment without embeddings leaves no index and
\* empty lists, and a query put to the matcher in that state returns no
\* identity with confidence 0.
C19_EmptyIndex ==
  [][/\ (ReloadFaceMap(FALSE) /\ enrolled = NoEnrollment) =>
          /\ faiss_index' = NoIndex
          /\ emp_id_map' = <<>>
          /\ embeddings_cache' = <<>>
     /\ (Recognize /\ faiss_index = NoIndex) => answer' = NoMatch(0)]_vars

\* a query has returned from the matcher rebuilt from the empty enrollment
C19_Witness ==
  /\ enrolled = NoEnrollment
  /\ face_map = NoEnrollment
  /\ faiss_index = NoIndex
  /\ answer = NoMatch(0)

\* C20: in every state a query can run in, the index, the position-to-
\* identity list and the name map are those of one enrollment.
C20_OneSnapshot ==
  /\ emp_id_map = FlattenIds(face_map, RowOrder)
  /\ embeddings_cache = FlattenEmbeddings(face_map, RowOrder)
  /\ faiss_index = IF embeddings_cache = <<>> THEN NoIndex
                   ELSE IndexFlatIP(embeddings_cache)

\* C21: once the monitoring flag is false and stays false, every camera
\* task, wherever it was (not yet run, opening the source, sleeping after an
\* exception, draining a skipped frame, between frames), sees the flag at
\* one of its two loop conditions and returns.
C21_WorkersObserveStop ==
  <>[](~is_monitoring) => <>[](\A w \in WorkerIds : ~Live(w))

\* monitoring was stopped after a frame was processed and a set-up had
\* raised, and both tasks have returned
C21_Witness ==
  /\ ~is_monitoring
  /\ stopper = "v1"
  /\ frames_read > 0
  /\ \A c \in Cams : workers[<<1, c>>].pc = "done"

\* C22: a camera task whose attempts to connect all fail makes no more than
\* max_reconnect attempts in a row, and with max_reconnect failures behind
\* it the task does nothing but return.
C22_AttemptsBounded ==
  \A w \in WorkerIds :
    /\ workers[w].failed <= max_reconnect
    /\ workers[w].failed = max_reconnect =>
         workers[w].reconnect_attempts = max_reconnect \/ ~Live(w)

\* the task gives up: it returns with monitoring still on
GaveUp(w) ==
  /\ is_monitoring
  /\ Live(w)
  /\ workers'[w].pc = "done"

\* C23: when a camera task gives up at the reconnect ceiling, the viewers
\* that are connected are sent a status message about it.
C23_GiveUpIsReported ==
  [][\A w \in WorkerIds :
       GaveUp(w) /\ active_connections # {} =>
         /\ sent'.via = "broadcast"
         /\ sent'.to = active_connections
         /\ sent'.msgs[1].type = "status"]_vars

\* a read that returned no frame, with monitoring on
ReadFailed(w) ==
  /\ is_monitoring
  /\ workers[w].pc = "inner"
  /\ workers'[w].pc = "outer"

\* C28: every read that returns no frame adds one to the task's count of
\* consecutive reconnects, so that a camera that keeps delivering nothing
\* brings the task to the ceiling.
C28_ReadFailuresEscalate ==
  [][\A w \in WorkerIds :
       ReadFailed(w) =>
         workers'[w].reconnect_attempts = workers[w].reconnect_attempts + 1]_vars

\* C24: a camera task leaves the processing of a frame in one way only, by
\* publishing the frame to the hub with all its faces dealt with, and it is
\* then back in the streaming loop: so for a frame with no matched face and
\* for a frame whose ledger write returned a failure.
C24_EveryFramePublished ==
  [][\A w \in WorkerIds :
       workers[w].pc = "faces" /\ workers'[w].pc # "faces" =>
         /\ Published(w)
         /\ active_connections # {} =>
              /\ LiveFrame
              /\ sent'.msgs = <<FrameMsg(w[2])>>
              /\ sent'.to = active_connections]_vars

\* a task that has published a frame before is at the end of a frame whose
\* ledger write failed
C24_Witness ==
  \E w \in WorkerIds :
    /\ workers[w].pc = "faces"
    /\ workers[w].faces = <<>>
    /\ workers[w].result = Result(FALSE, "error")
    /\ last_frame[w[2]] # None

\* C26: a ledger call during which the store raises returns the failure
\* result to the task, which goes on with the frame, and leaves the table,
\* hence the record of that identity and day, as it was.
C26_FaultIsAResult ==
  [][\A w \in WorkerIds :
       Called(w) /\ ~workers'[w].result.success =>
         /\ workers'[w].result = Result(FALSE, "error")
         /\ table' = table]_vars

\* a record is stored, and the call for the same identity later that day
\* has returned the failure result
C26_Witness ==
  \E w \in WorkerIds :
    /\ workers[w].pc = "faces"
    /\ workers[w].result = Result(FALSE, "error")
    /\ \E r \in table : r.date = DateOf(workers[w].timestamp)

\* the step is a stop of viewer v that was accepted
StopAccepted(v) ==
  /\ vpc[v] = "idle"
  /\ MayStop(v)
  /\ stopper' = v
  /\ sent'.via = "broadcast"
  /\ sent'.msgs = <<StatusMsg("stopped", user_name(v))>>

\* C25: a stop accepted while monitoring is off leaves the monitoring flag,
\* the recorded starter, the camera tasks, the frame cache and the registry
\* as they are: a second stop changes nothing that the first has not.
C25_StopIdempotent ==
  [][\A v \in Viewers :
       ~is_monitoring /\ StopAccepted(v) =>
         UNCHANGED <<is_monitoring, started_by, starter, sessions, workers,
                     last_frame, active_connections, start_lock>>]_vars

\* a stop has just been accepted although the camera task of the session
\* had already seen the flag off and returned
C25_Witness ==
  /\ ~is_monitoring
  /\ sessions > 0
  /\ sent.via = "broadcast"
  /\ sent.msgs[1].info = "stopped"
  /\ workers[<<sessions, "entry">>].pc = "done"

\* C27: the frames of one camera are published in the order in which they
\* were captured: when a frame is published, no frame of the same camera
\* that was captured before it is still waiting to be published.
C27_CaptureOrder ==
  [][\A w, u \in WorkerIds :
       (/\ Published(w)
        /\ u[2] = w[2]
        /\ workers[u].pc = "faces")
       => workers[u].timestamp >= workers[w].timestamp]_vars

\* the step in which the task pulls a frame and drains it
Drained(w) ==
  /\ is_monitoring
  /\ workers[w].pc = "inner"
  /\ workers'[w].pc = "inner"
  /\ workers'[w].frame_count # workers[w].frame_count

\* The frame count is kept modulo FRAME_SKIP and the frame that is processed
\* takes it from 0 to 1, so at a drain it is the number of frames pulled
\* since the last processed one, that one included.
PulledSince(w) == workers[w].frame_count

\* C29: a camera task processes every 4th frame it pulls: a frame that is
\* drained as the 2nd or 3rd since the last processed one is followed by
\* another drain, and nothing but the 4th is processed.  A drain runs no
\* ledger call and publishes nothing.
C29_EveryFourthFrame ==
  [][\A w \in WorkerIds :
       Drained(w) =>
         /\ PulledSince(w) + 1 < 4 => workers'[w].frame_count % FRAME_SKIP # 0
         /\ table' = table
         /\ sent' = NoSend
         /\ last_frame' = last_frame]_vars

\* the positions of the rebuilt index that the list gives to employee e
PositionsOf(e) == {i \in 1..Len(emp_id_map') : emp_id_map'[i] = e}

\* C30: after a rebuild that has run to its end, at a reload or after an
\* employee was deleted, the index holds one entry for each stored pose of
\* each employee, the position-to-identity list is as long as the index and
\* names, position by position, the employee whose pose is stored there, in
\* the order of the employee's poses; an employee without embeddings has no
\* position and is never the answer of a query; and there is no index
\* exactly when the enrollment has no embedding.
C30_IndexMatchesEnrollment ==
  [][/\ (ReloadFaceMap(FALSE) \/ \E d \in Employees : DeleteEmployee(d, FALSE)) =>
          /\ Len(emp_id_map') = Len(faiss_index'.vecs)
          /\ \A i \in 1..Len(emp_id_map') : emp_id_map'[i] \in Employees
          /\ \A e \in Employees :
               /\ Cardinality(PositionsOf(e)) = Len(enrolled'[e])
               /\ \A i \in PositionsOf(e) :
                    faiss_index'.vecs[i] =
                      enrolled'[e][Cardinality({j \in PositionsOf(e) : j <= i})]
          /\ faiss_index' = NoIndex <=> \A e \in Employees : enrolled'[e] = <<>>
          /\ faiss_index'.built <=> \E e \in Employees : enrolled'[e] # <<>>
     /\ Recognize =>
          \A e \in Employees : enrolled[e] = <<>> => answer'.emp_id # e]_vars

\* the index was rebuilt for one employee with two poses and one with none,
\* and a query has returned the first
C30_Witness ==
  /\ face_map = enrolled
  /\ Len(enrolled["E001"]) = 2
  /\ enrolled["E002"] = <<>>
  /\ faiss_index.built
  /\ Len(faiss_index.vecs) = 2
  /\ answer.emp_id = "E001"

\* C31: a ledger call for identity e on day D leaves every record of another
\* identity or another day as it was, adds or changes only records keyed
\* (e, D), and returns what it would return if the records keyed (e, D) were
\* the whole table; an OUT event after midnight does not touch the record of
\* the day before.
C31_OnlyTheDaysRecord ==
  [][\A w \in WorkerIds :
       Called(w) =>
         LET keyed  == {r \in table : r.emp_id = EventEmp(w) /\ r.date = EventDay(w)}
             others == table \ keyed
         IN  /\ others \subseteq table'
             /\ \A r \in table' \ others :
                  r.emp_id = EventEmp(w) /\ r.date = EventDay(w)
             /\ workers'[w].result =
                  log_attendance_update_only(keyed, EventEmp(w),
                     EventKind(w), EventCam(w), EventConf(w),
                     workers[w].timestamp).result]_vars

\* an OUT event of the second day was logged for an identity whose record of
\* the first day is still in the table
C31_Witness ==
  \E w \in WorkerIds, r0, r1 \in table :
    /\ w[2] = "exit" /\ workers[w].pc = "faces"
    /\ workers[w].result = Result(TRUE, "inserted")
    /\ DateOf(workers[w].timestamp) = 1
    /\ r0.emp_id = r1.emp_id /\ r0.date = 0 /\ r1.date = 1
    /\ r1.in_camera_id = "exit_camera"

\* The step in which worker w goes through the body of its inner loop once
Iterated(w) ==
  /\ workers[w].pc = "inner"
  /\ is_monitoring
  /\ workers'[w] # workers[w]

\* the index in use holds a vector of identity e
Indexed(index, id_map, e) ==
  /\ index.built
  /\ Len(index.vecs) = Len(id_map)
  /\ \E i \in 1..Len(id_map) : id_map[i] = e

\* C32: when a camera worker goes through its inner loop with the face map
\* older than the reload age and the store answering, the index in use
\* afterwards holds every identity that has an embedding in the store, and
\* the age starts again: a newly registered identity is in the index at the
\* first iteration after the window has elapsed.
C32_StaleMapReloaded ==
  [][\A w \in WorkerIds :
       (Iterated(w) /\ stale /\ store_ok) =>
         /\ \A e \in Employees :
              enrolled[e] # <<>> => Indexed(faiss_index', emp_id_map', e)
         /\ face_map' = enrolled
         /\ ~stale']_vars

\* an identity registered during the session is in the index in use
C32_Witness ==
  /\ is_monitoring
  /\ ~stale
  /\ \E e \in Employees :
       enrolled[e] # <<>> /\ Indexed(faiss_index, emp_id_map, e)

\* C33: the connection status sent by connect reports can_stop as true
\* exactly when a stop from the connecting viewer would be accepted in the
\* state of the hub at that moment.
C33_CanStopIsTruthful ==
  [][\A v \in Viewers :
       (vpc[v] = "closed" /\ vpc'[v] # "closed") =>
         /\ sent'.to = {v}
         /\ sent'.msgs[1].type = "connection_status"
         /\ (sent'.msgs[1].by = "can_stop") <=> MayStop(v)]_vars

\* C34: a 'stopped' status message goes to the viewers only in a step that
\* takes the monitoring flag from true to false.
C34_StoppedMeansStopped ==
  [][(sent'.via = "broadcast" /\ sent'.msgs[1].type = "status"
        /\ sent'.msgs[1].info = "stopped")
       => (is_monitoring /\ ~is_monitoring')]_vars

\* C35: the step of a ledger call broadcasts an attendance message, with the
\* identity and the action, exactly when the call succeeded with an action
\* other than 'skipped'; a skipped or failed call sends nothing, and no other
\* step sends an attendance message.
C35_AttendanceIffWritten ==
  [][/\ \A w \in WorkerIds :
          Called(w) =>
            LET result == workers'[w].result
            IN  IF result.success /\ result.action # "skipped"
                  THEN /\ sent'.to = active_connections
                       /\ sent'.via = "broadcast"
                       /\ sent'.msgs = <<AttendanceMsg(EventEmp(w), result.action)>>
                  ELSE sent' = NoSend
     /\ (sent'.msgs # <<>> /\ sent'.msgs[1].type = "attendance")
          => \E w \in WorkerIds : Called(w)]_vars

\* the second event of the day for an identity was logged and announced to
\* the viewer: its first had made the record, this one updated it
C35_Witness ==
  /\ sent.to # {}
  /\ sent.msgs # <<>>
  /\ sent.msgs[1] = AttendanceMsg(sent.msgs[1].by, "updated")
  /\ \E r \in table : r.emp_id = sent.msgs[1].by /\ r.last_out # NULL

\* C36: every record in the table after a step has first-IN set, so a set
\* last-OUT comes with a set first-IN, and an OUT event that finds a record
\* for its identity and day finds first-IN set in it: the branch for an
\* existing record without first-IN is not taken.
C36_FirstInAlwaysSet ==
  [][/\ \A r \in table' : r.first_in # NULL
     /\ \A w \in WorkerIds :
          (Called(w) /\ EventKind(w) = "OUT") =>
            \A r \in table :
              (r.emp_id = EventEmp(w) /\ r.date = EventDay(w)) => r.first_in # NULL]_vars

\* a record that an OUT event created has taken a second OUT event
C36_Witness ==
  \E w \in WorkerIds, r \in table :
    /\ w[2] = "exit"
    /\ workers[w].result = Result(TRUE, "updated")
    /\ r.in_camera_id = "exit_camera"
    /\ r.first_in # NULL /\ r.last_out # NULL

\* C37: whenever the monitoring flag is true, each of the two cameras has a
\* camera task that has not returned.
C37_MonitoringHasWorkers ==
  is_monitoring => \A c \in Cams : \E w \in WorkerIds : w[2] = c /\ Live(w)

\* C38: when a camera worker goes through its inner loop with the face map
\* older than the reload age and the store not answering, the index in use
\* and the identities of its rows are afterwards what they were.
C38_FailedFetchKeepsIndex ==
  [][\A w \in WorkerIds :
       (Iterated(w) /\ stale /\ ~store_ok) =>
         /\ faiss_index' = faiss_index
         /\ emp_id_map' = emp_id_map]_vars

\* C39: in every reachable state the recognized and the unknown faces
\* counted are together no more than the faces counted in total.
C39_CountersConsistent ==
  stats.recognized + stats.unknown <= stats.total_faces

====
